---- MODULE Spec2Model ----
(***************************************************************************)
(* Model of nevergrad/parametrization/mutation.py: the array mutation      *)
(* operators Crossover, Translation, LocalGaussian and TunedTranslation    *)
(* and the window builder _make_slices they share.                         *)
(*                                                                         *)
(* An n-dimensional array is a record [shape, value]: shape is the tuple   *)
(* of extents, value maps every index tuple (0-based per axis, as in the   *)
(* source) to a number.  Axis a of the source is position a + 1 of the     *)
(* TLA+ tuples.  Every draw of the random state is an input of the action  *)
(* that makes it.  The spectral path of Crossover (fft = True) relies on   *)
(* an external transform and is not modelled: fft is False throughout.     *)
(***************************************************************************)
EXTENDS Integers, Sequences, FiniteSets

\* ------------------------------------------------------------------ bounds
MaxDim == 2
MaxExtent == 5
MaxCells == 16
MaxArrays == 3
MaxSize == 3
MaxNoise == 1
MaxOperators == 2
MaxTunedCells == 4

VARIABLES
    arrays,        \* the Array parameters handed to the last apply; arrays[1] is the target
    call,          \* what the last call was given, drew and answered
    operators,     \* the TunedTranslation operators: id -> [axis, shape, shift]
    choices,       \* the Choice parameters: reference -> [choices, weights]
    init_weights   \* the weight vector the first TunedTranslation was given

vars == <<arrays, call, operators, choices, init_weights>>

\* ------------------------------------------------------------------ errors
NoError == "none"
ArityError == "wrong number of arrays"
ShapeMismatchError == "shapes differ"
InvalidAxisError == "Cannot crossover on axis with size 1"
EmptyRangeError == "randint: low >= high"

\* ------------------------------------------------------------------ arrays
RECURSIVE Prod(_, _)
Prod(shape, d) == IF d > Len(shape) THEN 1 ELSE shape[d] * Prod(shape, d + 1)

\* ndarray.size
Size(shape) == Prod(shape, 1)

Shapes ==
    { s \in UNION { [1..n -> 1..MaxExtent] : n \in 1..MaxDim } : Size(s) <= MaxCells }

AllAxes(shape) == 0..(Len(shape) - 1)

\* the index tuples of an array of this shape
RECURSIVE Idx(_)
Idx(shape) ==
    IF shape = <<>> THEN {<<>>}
    ELSE { <<h>> \o t : h \in 0..(shape[1] - 1), t \in Idx(Tail(shape)) }

\* position of an index tuple in the flattened (C order) array, 0-based
RECURSIVE Flat(_, _, _)
Flat(i, shape, d) ==
    IF d > Len(shape) THEN 0 ELSE i[d] * Prod(shape, d + 1) + Flat(i, shape, d + 1)

\* the index tuple at position k (0-based) of the flattened array
Unravel(k, shape) == [d \in 1..Len(shape) |-> (k \div Prod(shape, d + 1)) % shape[d]]

\* ndarray.ravel(): the flattened array, as a sequence
Ravel(arr) == [k \in 1..Size(arr.shape) |-> arr.value[Unravel(k - 1, arr.shape)]]

\* ndarray.reshape(shape) of a flat sequence
Reshape(flat, shape) ==
    [shape |-> shape, value |-> [i \in Idx(shape) |-> flat[Flat(i, shape, 1) + 1]]]

\* the array base, base + 1, ... of the given shape
Arange(shape, base) ==
    [shape |-> shape, value |-> [i \in Idx(shape) |-> base + Flat(i, shape, 1)]]

Zeros(shape) == [shape |-> shape, value |-> [i \in Idx(shape) |-> 0]]

\* RandomState.randint(low, high): the values it can return; none when low >= high,
\* where numpy raises ValueError
RandInt(low, high) == low..(high - 1)

Min(S) == CHOOSE x \in S : \A y \in S : x <= y

\* i lies in the region  tuple(slices)  selects
InWindow(i, slices) == \A d \in 1..Len(slices) : slices[d][1] <= i[d] /\ i[d] < slices[d][2]

\* what a call answers: the error raised (NoError when it returned), the array it
\* returned, and the settings and draws it went through
Trace(error, result, axis, max_size, size, slices, shifts) ==
    [error |-> error, result |-> result, axis |-> axis, max_size |-> max_size,
     size |-> size, slices |-> slices, shifts |-> shifts]

Raise(error) == Trace(error, Zeros(<<>>), {}, 0, 0, <<>>, <<>>)

\* ------------------------------------------------------------ _make_slices
StartRangeWide(s, size) == RandInt(0, s)

\* rng.randint(s - size): the starts the window of a targeted axis can get
StartRange(s, size) == RandInt(0, s - size)

\* the draws  _make_slices  can make: one start per targeted axis whose range is
\* not empty (position a + 1 for axis a), 0 where no draw is made
StartDraws(shape, axes, size) ==
    { st \in [1..Len(shape) -> 0..MaxExtent] :
        \A d \in 1..Len(shape) :
            IF (d - 1) \in axes /\ StartRange(shape[d], size) # {}
            THEN st[d] \in StartRange(shape[d], size)
            ELSE st[d] = 0 }

\* no draw is made
NoDraws(shape) == { [d \in 1..Len(shape) |-> 0] }

RECURSIVE MakeSlicesSilent(_, _, _, _, _)
MakeSlicesSilent(a, shape, axes, size, starts) ==
    IF a >= Len(shape) THEN [error |-> NoError, slices |-> <<>>]
    ELSE LET s == shape[a + 1]
             rest == MakeSlicesSilent(a + 1, shape, axes, size, starts)
         IN  IF a \in axes /\ s <= 1 THEN [error |-> InvalidAxisError, slices |-> <<>>]
             ELSE IF rest.error # NoError THEN rest
             ELSE IF a \in axes
             THEN [error |-> NoError,
                   slices |-> << <<starts[a + 1], starts[a + 1] + size>> >> \o rest.slices]
             ELSE [error |-> NoError, slices |-> << <<0, s>> >> \o rest.slices]

\* the loop of _make_slices from axis a on: the first axis that fails decides the
\* error, and nothing is returned then
RECURSIVE MakeSlicesFrom(_, _, _, _, _)
MakeSlicesFrom(a, shape, axes, size, starts) ==
    IF a >= Len(shape) THEN [error |-> NoError, slices |-> <<>>]
    ELSE LET s == shape[a + 1]
             rest == MakeSlicesFrom(a + 1, shape, axes, size, starts)
         IN  IF a \in axes
             THEN IF s <= 1 THEN [error |-> InvalidAxisError, slices |-> <<>>]
                  ELSE IF StartRange(s, size) = {}
                  THEN [error |-> EmptyRangeError, slices |-> <<>>]
                  ELSE IF rest.error # NoError THEN rest
                  ELSE [error |-> NoError,
                        slices |-> << <<starts[a + 1], starts[a + 1] + size>> >> \o rest.slices]
             ELSE IF rest.error # NoError THEN rest
                  ELSE [error |-> NoError, slices |-> << <<0, s>> >> \o rest.slices]

MakeSlices(shape, axes, size, starts) == MakeSlicesFrom(0, shape, axes, size, starts)

\* --------------------------------------------------------------- Crossover
\* an optional setting is <<>> (None) or <<v>>
AxisSettings(shape) == {<<>>} \cup { <<S>> : S \in (SUBSET AllAxes(shape)) \ {{}} }

ResolveAxis(setting, shape) == IF setting = <<>> THEN AllAxes(shape) ELSE setting[1]

RECURSIVE Power(_, _)
Power(k, n) == IF n = 0 THEN 1 ELSE k * Power(k, n - 1)

\* int(((size + 1) / 2) ** (1 / n))
DefaultMaxSize(size, n) ==
    CHOOSE k \in 0..(size + 1) :
        /\ 2 * Power(k, n) <= size + 1
        /\ 2 * Power(k + 1, n) > size + 1

\* min(max_size, *(shape[a] - 1 for a in axis))
ClampedMaxSize(setting, shape, axis) ==
    LET max_size == IF setting = <<>> THEN DefaultMaxSize(Size(shape), Cardinality(axis))
                    ELSE setting[1]
    IN  Min({max_size} \cup { shape[a + 1] - 1 : a \in axis })

SizeRangeInclusive(max_size) == IF max_size = 1 THEN {1} ELSE RandInt(1, max_size + 1)

\* 1 if max_size == 1 else random_state.randint(1, max_size): the sizes it can give
SizeRange(max_size) == IF max_size = 1 THEN {1} ELSE RandInt(1, max_size)

MergeSwapped(first, second, slices) ==
    [shape |-> first.shape,
     value |-> [i \in Idx(first.shape) |->
                  IF InWindow(i, slices) THEN first.value[i] ELSE second.value[i]]]

\* result = np.array(first, copy=True); result[slices] = second[slices]
Merge(first, second, slices) ==
    [shape |-> first.shape,
     value |-> [i \in Idx(first.shape) |->
                  IF InWindow(i, slices) THEN second.value[i] ELSE first.value[i]]]

\* Crossover._apply_array on the raw arrays, with the size and the starts drawn
CrossoverApplyArray(raw, axis_setting, max_size_setting, size_draw, starts) ==
    IF Len(raw) # 2 THEN Raise(ArityError)
    ELSE IF raw[1].shape # raw[2].shape THEN Raise(ShapeMismatchError)
    ELSE LET shape == raw[1].shape
             axis == ResolveAxis(axis_setting, shape)
             max_size == ClampedMaxSize(max_size_setting, shape, axis)
         IN  IF SizeRange(max_size) = {}
             THEN Trace(EmptyRangeError, Zeros(<<>>), axis, max_size, 0, <<>>, <<>>)
             ELSE LET made == MakeSlices(shape, axis, size_draw, starts)
                  IN  IF made.error # NoError
                      THEN Trace(made.error, Zeros(<<>>), axis, max_size, size_draw, <<>>, <<>>)
                      ELSE Trace(NoError, Merge(raw[1], raw[2], made.slices),
                                 axis, max_size, size_draw, made.slices, <<>>)


\* Crossover.apply: the target is assigned only once _apply_array has returned
CrossoverApplyEarlyWrite(params, axis_setting, max_size_setting, size_draw, starts) ==
    LET t == CrossoverApplyArray(params, axis_setting, max_size_setting, size_draw, starts)
    IN  [arrays |-> IF t.error = NoError THEN [params EXCEPT ![1] = t.result]
                    ELSE IF Len(params) >= 2 /\ params[1].shape = params[2].shape
                    THEN [params EXCEPT ![1] = params[2]]
                    ELSE params,
         trace |-> t]

CrossoverApply(params, axis_setting, max_size_setting, size_draw, starts) ==
    LET t == CrossoverApplyArray(params, axis_setting, max_size_setting, size_draw, starts)
    IN  [arrays |-> IF t.error = NoError THEN [params EXCEPT ![1] = t.result] ELSE params,
         trace |-> t]

\* ------------------------------------------------------------- Translation
\* np.roll(data, shifts, axis): the element at index i moves to (i + shift) mod extent
\* on every axis in axis; shifts has one entry per dimension
Roll(data, shifts, axis) ==
    [shape |-> data.shape,
     value |-> [i \in Idx(data.shape) |->
                  data.value[[d \in 1..Len(data.shape) |->
                                IF (d - 1) \in axis
                                THEN (i[d] - shifts[d]) % data.shape[d]
                                ELSE i[d]]]]]

\* [random_state.randint(shape[a]) for a in axis]: the shifts it can draw, 0 where
\* no draw is made
ShiftDraws(shape, axis) ==
    { sh \in [1..Len(shape) -> 0..MaxExtent] :
        \A d \in 1..Len(shape) :
            IF (d - 1) \in axis THEN sh[d] \in RandInt(0, shape[d]) ELSE sh[d] = 0 }

TranslationApplyArrayFirstAxis(raw, axis_setting, shifts) ==
    IF Len(raw) # 1 THEN Raise(ArityError)
    ELSE LET axis == ResolveAxis(axis_setting, raw[1].shape)
         IN  Trace(NoError, Roll(raw[1], shifts, {Min(axis)}), axis, 0, 0, <<>>, shifts)

\* Translation._apply_array
TranslationApplyArray(raw, axis_setting, shifts) ==
    IF Len(raw) # 1 THEN Raise(ArityError)
    ELSE LET axis == ResolveAxis(axis_setting, raw[1].shape)
         IN  Trace(NoError, Roll(raw[1], shifts, axis), axis, 0, 0, <<>>, shifts)

\* Mutation.apply: arrays[0] takes the array _apply_array returned; a raise leaves it
MutationApply(params, t) ==
    [arrays |-> IF t.error = NoError THEN [params EXCEPT ![1] = t.result] ELSE params,
     trace |-> t]

\* ----------------------------------------------------------- LocalGaussian
\* random_state.normal(0, 1, size=shape): the noise fields drawn, one number per index
NoiseFields(shape) ==
    UNION { { [i \in Idx(shape) |-> k],
              [i \in Idx(shape) |-> -k],
              [i \in Idx(shape) |-> IF Flat(i, shape, 1) % 2 = 0 THEN k ELSE -k] }
            : k \in 1..MaxNoise }

LocalGaussianDataEverywhere(shape, slices, noise) ==
    [shape |-> shape, value |-> [i \in Idx(shape) |-> noise[i]]]

\* data = np.zeros(shape); data[slices] += normal(0, 1, size=data[slices].shape)
LocalGaussianData(shape, slices, noise) ==
    [shape |-> shape,
     value |-> [i \in Idx(shape) |-> IF InWindow(i, slices) THEN 0 + noise[i] ELSE 0]]

\* Array._internal_set_standardized_data(data, reference): data is the flat offset
\* from the reference, in the reference's standardized space
SetStandardizedData(target, data, reference) ==
    Reshape([k \in 1..Len(data) |-> Ravel(reference)[k] + data[k]], target.shape)

\* Array.get_standardized_data against the origin: the flat standardized representation
StandardizedData(param) == Ravel(param)

\* LocalGaussian.apply
LocalGaussianApply(params, axes_setting, size, starts, noise) ==
    IF Len(params) # 1 THEN [arrays |-> params, trace |-> Raise(ArityError)]
    ELSE LET shape == params[1].shape
             axis == ResolveAxis(axes_setting, shape)
             made == MakeSlices(shape, axis, size, starts)
             data == LocalGaussianData(shape, made.slices, noise)
         IN  IF made.error # NoError
             THEN [arrays |-> params,
                   trace |-> Trace(made.error, Zeros(<<>>), axis, 0, size, <<>>, <<>>)]
             ELSE [arrays |-> <<SetStandardizedData(params[1], Ravel(data), params[1])>>,
                   trace |-> Trace(NoError, data, axis, 0, size, made.slices, <<>>)]

\* ---------------------------------------------------------------- actions
\* the Array parameters a call is given: n arrays, the first of shape s, the others
\* of shape s2, with contents that differ at every index
Params(n, s, s2) == [k \in 1..n |-> Arange(IF k = 1 THEN s ELSE s2, 100 * (k - 1) + 1)]

\* the shape itself and one of the same size that differs from it
OtherShapes(s) == { s, Append(s, 1) }

\* the arrays a call of an operator that takes n arrays is given: n of one shape,
\* some other number of them, or (when n is 2) two whose shapes differ
Inputs(n, s) ==
    { Params(k, s, s) : k \in 1..MaxArrays }
        \cup (IF n = 2 THEN { Params(2, s, s2) : s2 \in OtherShapes(s) } ELSE {})

NoSetting == [shape |-> <<>>, axis |-> <<>>, max_size |-> <<>>, size |-> <<>>]

Call(op, before, settings, trace, who) ==
    [op |-> op, before |-> before, settings |-> settings, trace |-> trace, who |-> who,
     choices_before |-> choices]

Init ==
    /\ arrays = <<>>
    /\ call = [op |-> "none", before |-> <<>>, settings |-> NoSetting,
               trace |-> Raise(NoError), who |-> 0, choices_before |-> <<>>]
    /\ operators = <<>>
    /\ choices = <<>>
    /\ init_weights = <<>>

\* Crossover, Translation, LocalGaussian and _make_slices keep nothing from one
\* call to the next: a behaviour makes one such call, on inputs of its choice
Idle == call.op = "none"

\* a direct call of _make_slices(shape, axes, size, rng)
MakeSlicesCall ==
    /\ Idle
    /\ \E shape \in Shapes, size \in 1..MaxSize :
      \E axes \in SUBSET AllAxes(shape) :
        \E starts \in StartDraws(shape, axes, size) :
          LET made == MakeSlices(shape, axes, size, starts)
          IN  /\ arrays' = <<>>
              /\ call' = Call("make_slices", <<>>,
                              [NoSetting EXCEPT !.shape = shape, !.axis = <<axes>>,
                                                !.size = <<size>>],
                              Trace(made.error, Zeros(<<>>), axes, 0, size, made.slices, <<>>),
                              0)
              /\ UNCHANGED <<operators, choices, init_weights>>

\* Crossover(axis, max_size).apply(arrays)
CrossoverCall ==
    /\ Idle
    /\ \E s \in Shapes :
      \E params \in Inputs(2, s), axis_setting \in AxisSettings(s),
         max_size_setting \in {<<>>} \cup { <<m>> : m \in 1..MaxSize } :
        LET axis == ResolveAxis(axis_setting, s)
            max_size == ClampedMaxSize(max_size_setting, s, axis)
            checked == Len(params) = 2 /\ params[2].shape = s
        IN  \E size \in (IF checked /\ SizeRange(max_size) # {}
                          THEN SizeRange(max_size) ELSE {0}) :
              \E starts \in (IF checked /\ size # 0
                              THEN StartDraws(s, axis, size) ELSE NoDraws(s)) :
                LET r == CrossoverApply(params, axis_setting, max_size_setting, size, starts)
                IN  /\ arrays' = r.arrays
                    /\ call' = Call("Crossover", params,
                                    [NoSetting EXCEPT !.axis = axis_setting,
                                                      !.max_size = max_size_setting],
                                    r.trace, 0)
                    /\ UNCHANGED <<operators, choices, init_weights>>

\* Translation(axis).apply(arrays)
TranslationCall ==
    /\ Idle
    /\ \E s \in Shapes :
      \E params \in Inputs(1, s), axis_setting \in AxisSettings(s) :
        \E shifts \in (IF Len(params) = 1
                        THEN ShiftDraws(s, ResolveAxis(axis_setting, s)) ELSE NoDraws(s)) :
          LET r == MutationApply(params, TranslationApplyArray(params, axis_setting, shifts))
          IN  /\ arrays' = r.arrays
              /\ call' = Call("Translation", params,
                              [NoSetting EXCEPT !.axis = axis_setting], r.trace, 0)
              /\ UNCHANGED <<operators, choices, init_weights>>

\* a second Translation.apply on the translated array, its draws being
\* extent - v for the shifts v of the first
TranslationBack ==
    /\ call.op = "Translation"
    /\ call.trace.error = NoError
    /\ LET s == arrays[1].shape
           back == [d \in 1..Len(s) |->
                      IF (d - 1) \in call.trace.axis THEN s[d] - call.trace.shifts[d] ELSE 0]
           r == MutationApply(arrays, TranslationApplyArray(arrays, call.settings.axis, back))
       IN  /\ arrays' = r.arrays
           /\ call' = Call("TranslationBack", call.before, call.settings, r.trace, 0)
    /\ UNCHANGED <<operators, choices, init_weights>>

\* LocalGaussian(size, axes).apply(arrays)
LocalGaussianCall ==
    /\ Idle
    /\ \E s \in Shapes, size \in 1..MaxSize :
      \E params \in Inputs(1, s), axes_setting \in AxisSettings(s) :
        \E starts \in (IF Len(params) = 1
                        THEN StartDraws(s, ResolveAxis(axes_setting, s), size)
                        ELSE NoDraws(s)) :
         \E noise \in (IF MakeSlices(s, ResolveAxis(axes_setting, s), size, starts).error
                            = NoError /\ Len(params) = 1
                        THEN NoiseFields(s) ELSE { [i \in Idx(s) |-> 0] }) :
          LET r == LocalGaussianApply(params, axes_setting, size, starts, noise)
          IN  /\ arrays' = r.arrays
              /\ call' = Call("LocalGaussian", params,
                              [NoSetting EXCEPT !.axis = axes_setting, !.size = <<size>>],
                              r.trace, 0)
              /\ UNCHANGED <<operators, choices, init_weights>>


\* -------------------------------------------------------- TunedTranslation
\* np.roll of a vector: the entry at position i moves to (i + shift) mod length
RollVector(w, shift) == [j \in 1..Len(w) |-> w[((j - 1 - shift) % Len(w)) + 1]]

\* range(1, shape[axis]): the shifts the Choice is made of
ShiftChoices(extent) == [j \in 1..(extent - 1) |-> j]

\* Choice(values): one weight per value, all 0
NewChoice(values) == [choices |-> values, weights |-> [j \in 1..Len(values) |-> 0]]

\* Parameter.spawn_child: a new parameter with the content of its parent
SpawnChild(param) == param

\* TunedTranslation.__init__: the operator, its Choice at reference ref
TunedTranslationInit(axis, shape, ref) == [axis |-> axis, shape |-> shape, shift |-> ref]

TunedTranslationApplyArrayNoUpdate(self, heap, raw, index) ==
    IF Len(raw) # 1 THEN [trace |-> Raise(ArityError), choices |-> heap]
    ELSE IF raw[1].shape # self.shape THEN [trace |-> Raise(ShapeMismatchError), choices |-> heap]
    ELSE LET shift == heap[self.shift].choices[index]
             by == [d \in 1..Len(self.shape) |-> IF d - 1 = self.axis THEN shift ELSE 0]
         IN  [trace |-> Trace(NoError, Roll(raw[1], by, {self.axis}), {self.axis}, 0, 0, <<>>, by),
              choices |-> heap]

\* TunedTranslation._apply_array: index is the Choice's draw among its choices
TunedTranslationApplyArray(self, heap, raw, index) ==
    IF Len(raw) # 1 THEN [trace |-> Raise(ArityError), choices |-> heap]
    ELSE IF raw[1].shape # self.shape THEN [trace |-> Raise(ShapeMismatchError), choices |-> heap]
    ELSE LET shift == heap[self.shift].choices[index]
             shifts == heap[self.shift].weights
             by == [d \in 1..Len(self.shape) |-> IF d - 1 = self.axis THEN shift ELSE 0]
         IN  [trace |-> Trace(NoError, Roll(raw[1], by, {self.axis}), {self.axis}, 0, 0, <<>>, by),
              choices |-> [heap EXCEPT ![self.shift].weights = RollVector(shifts, shift)]]

InternalSpawnChildShared(self, heap) ==
    [child |-> TunedTranslationInit(self.axis, self.shape, self.shift),
     choices |-> heap \o <<NewChoice(ShiftChoices(self.shape[self.axis + 1])), SpawnChild(heap[self.shift])>>]

\* TunedTranslation._internal_spawn_child: a new operator, whose own Choice is then
\* replaced by a spawned copy of the parent's
InternalSpawnChild(self, heap) ==
    [child |-> TunedTranslationInit(self.axis, self.shape, Len(heap) + 2),
     choices |-> heap \o <<NewChoice(ShiftChoices(self.shape[self.axis + 1])), SpawnChild(heap[self.shift])>>]

\* the weights a Choice of n shifts starts from: all 0 as constructed, or set from
\* outside to distinct values
WeightVectors(n) == { [j \in 1..n |-> 0], [j \in 1..n |-> j] }

\* TunedTranslation(axis, shape), its weights then set
TunedTranslationNew ==
    /\ Idle
    /\ operators = <<>>
    /\ \E shape \in { s \in Shapes : Size(s) <= MaxTunedCells } :
         \E axis \in { a \in AllAxes(shape) : shape[a + 1] >= 2 } :
           \E w \in WeightVectors(shape[axis + 1] - 1) :
             /\ operators' = <<TunedTranslationInit(axis, shape, 1)>>
             /\ choices' = <<[NewChoice(ShiftChoices(shape[axis + 1])) EXCEPT !.weights = w]>>
             /\ init_weights' = w
             /\ arrays' = <<>>
             /\ call' = [Call("TunedTranslation", <<>>,
                              [NoSetting EXCEPT !.shape = shape, !.axis = <<{axis}>>],
                              Raise(NoError), 1) EXCEPT !.choices_before = <<>>]

\* operators[o].apply(arrays)
TunedTranslationCall ==
    \E o \in DOMAIN operators :
      \E s \in OtherShapes(operators[o].shape) :
       \E params \in Inputs(1, s) :
        \E index \in (IF Len(params) = 1 /\ s = operators[o].shape
                       THEN DOMAIN choices[operators[o].shift].choices ELSE {1}) :
          LET got == TunedTranslationApplyArray(operators[o], choices, params, index)
              r == MutationApply(params, got.trace)
          IN  /\ arrays' = r.arrays
              /\ choices' = got.choices
              /\ call' = Call("TunedTranslation.apply", params, NoSetting, r.trace, o)
              /\ UNCHANGED <<operators, init_weights>>

\* operators[o].spawn_child(): the child becomes the last operator
TunedTranslationSpawn ==
    /\ Len(operators) < MaxOperators
    /\ \E o \in DOMAIN operators :
         LET r == InternalSpawnChild(operators[o], choices)
         IN  /\ operators' = Append(operators, r.child)
             /\ choices' = r.choices
             /\ arrays' = <<>>
             /\ call' = Call("spawn_child", <<>>, NoSetting, Raise(NoError), o)
             /\ UNCHANGED init_weights

Next == MakeSlicesCall \/ CrossoverCall \/ TranslationCall \/ TranslationBack
            \/ LocalGaussianCall \/ TunedTranslationNew \/ TunedTranslationCall
            \/ TunedTranslationSpawn

Spec == Init /\ [][Next]_vars

\* ------------------------------------------------------------------ claims
Answer == call.trace

Returned == Answer.error = NoError

\* the call got as far as _make_slices
BuiltWindow ==
    \/ call.op = "make_slices"
    \/ call.op \in {"Crossover", "LocalGaussian"} /\ Answer.size >= 1

WindowShape == IF call.op = "make_slices" THEN call.settings.shape ELSE call.before[1].shape

\* C1: when every targeted axis has extent > 1 and 1 <= size <= extent - 1 on each,
\* _make_slices returns one range per dimension: (start, start + size) within
\* [0, extent] on a targeted axis, (0, extent) on any other.
C1_WindowWithinExtent ==
    (/\ BuiltWindow
     /\ \A a \in Answer.axis :
            WindowShape[a + 1] > 1 /\ 1 <= Answer.size /\ Answer.size <= WindowShape[a + 1] - 1)
    => /\ Returned
       /\ Len(Answer.slices) = Len(WindowShape)
       /\ \A d \in 1..Len(WindowShape) :
            IF (d - 1) \in Answer.axis
            THEN /\ Answer.slices[d][2] - Answer.slices[d][1] = Answer.size
                 /\ 0 <= Answer.slices[d][1]
                 /\ Answer.slices[d][2] <= WindowShape[d]
            ELSE Answer.slices[d] = <<0, WindowShape[d]>>

C1_Witness ==
    /\ call.op = "make_slices"
    /\ Returned
    /\ Len(WindowShape) = 2
    /\ Answer.axis = {1}
    /\ Answer.size = 2
    /\ Answer.slices = << <<0, WindowShape[1]>>, <<1, 3>> >>

\* i lies within the drawn window on every targeted axis
InTargetedWindow(i) ==
    \A a \in Answer.axis : Answer.slices[a + 1][1] <= i[a + 1] /\ i[a + 1] < Answer.slices[a + 1][2]

\* C2: a Crossover of A and B equals B at every index within the drawn window on all
\* targeted axes and A at every other index, and leaves B as it was; on shape
\* (4,4), axis {1}, window columns 1-2, columns 1-2 come from B and 0 and 3 from A.
C2_CrossoverMerges ==
    (call.op = "Crossover" /\ Returned)
    => /\ arrays[1].shape = call.before[1].shape
       /\ \A i \in Idx(call.before[1].shape) :
            arrays[1].value[i] = IF InTargetedWindow(i) THEN call.before[2].value[i]
                                 ELSE call.before[1].value[i]
       /\ arrays[2] = call.before[2]
       /\ (/\ call.before[1].shape = <<4, 4>>
           /\ Answer.axis = {1}
           /\ Answer.slices[2] = <<1, 3>>)
          => \A r \in 0..3 :
                /\ arrays[1].value[<<r, 1>>] = call.before[2].value[<<r, 1>>]
                /\ arrays[1].value[<<r, 2>>] = call.before[2].value[<<r, 2>>]
                /\ arrays[1].value[<<r, 0>>] = call.before[1].value[<<r, 0>>]
                /\ arrays[1].value[<<r, 3>>] = call.before[1].value[<<r, 3>>]

C2_Witness ==
    /\ call.op = "Crossover"
    /\ Returned
    /\ call.before[1].shape = <<4, 4>>
    /\ call.settings.axis = <<{1}>>
    /\ Answer.size = 2
    /\ Answer.slices[2] = <<1, 3>>
    /\ arrays[1].value[<<0, 1>>] = call.before[2].value[<<0, 1>>]
    /\ arrays[1].value[<<0, 3>>] = call.before[1].value[<<0, 3>>]

\* Crossover is given two arrays of one shape, a targeted axis of which has extent 1
CrossoverOnExtentOne ==
    /\ call.op = "Crossover"
    /\ Len(call.before) = 2
    /\ call.before[1].shape = call.before[2].shape
    /\ \E a \in ResolveAxis(call.settings.axis, call.before[1].shape) :
            call.before[1].shape[a + 1] = 1

\* C3: Crossover of two arrays of one shape with a targeted axis of extent 1 fails
\* with _make_slices' error for an axis of extent <= 1, whatever max_size is.
C3_FailsWithInvalidAxis ==
    CrossoverOnExtentOne => Answer.error = InvalidAxisError /\ arrays = call.before

\* what the code does there: the draw of the size fails, on the empty range [1, 0)
C3_FailsOnTheSizeDraw ==
    CrossoverOnExtentOne
    => Answer.error = EmptyRangeError /\ Answer.max_size = 0 /\ arrays = call.before

Applies == {"Crossover", "Translation", "TranslationBack", "LocalGaussian",
            "TunedTranslation.apply"}

\* C4: an apply of Crossover, Translation, LocalGaussian or TunedTranslation that
\* fails leaves the target as it was, in value and in standardized representation.
C4_FailureLeavesTarget ==
    (call.op \in Applies /\ ~Returned)
    => /\ arrays = call.before
       /\ arrays[1].value = call.before[1].value
       /\ StandardizedData(arrays[1]) = StandardizedData(call.before[1])

C4_Witness ==
    /\ call.op = "Crossover"
    /\ Len(call.before) = 3
    /\ Answer.error = ArityError
    /\ arrays[1] = call.before[1]

\* where the element at index i goes under the shifts drawn
Moved(i, shape) ==
    [d \in 1..Len(shape) |->
        IF (d - 1) \in Answer.axis THEN (i[d] + Answer.shifts[d]) % shape[d] ELSE i[d]]

Weights(heap, o) == heap[operators[o].shift].weights

\* w is v with the entry at position j moved to position (j + k) mod length
RotatedBy(w, v, k) ==
    /\ Len(w) = Len(v)
    /\ \A j \in 1..Len(v) : w[((j - 1 + k) % Len(v)) + 1] = v[j]

\* C6: a TunedTranslation apply returns an array of the shape it was given, its shift
\* is in [1, extent - 1] of the operator's axis, and the operator's weights are the
\* weights before the call rotated by that shift; so the weights of every operator
\* are at all times a rotation of the initial weights.
C6_TunedShiftAndWeights ==
    /\ (call.op = "TunedTranslation.apply" /\ Returned)
       => LET self == operators[call.who]
              shift == Answer.shifts[self.axis + 1]
          IN  /\ Answer.result.shape = call.before[1].shape
              /\ 1 <= shift /\ shift <= self.shape[self.axis + 1] - 1
              /\ \A i \in Idx(Answer.result.shape) :
                    Answer.result.value[Moved(i, Answer.result.shape)] = call.before[1].value[i]
              /\ RotatedBy(Weights(choices, call.who), Weights(call.choices_before, call.who),
                           shift)
    /\ \A o \in DOMAIN operators :
          \E k \in 0..Len(init_weights) : RotatedBy(Weights(choices, o), init_weights, k)

C6_Witness ==
    /\ call.op = "TunedTranslation.apply"
    /\ Returned
    /\ Len(init_weights) = 3
    /\ Weights(call.choices_before, call.who) = <<3, 1, 2>>
    /\ Answer.shifts[operators[call.who].axis + 1] = 2
    /\ Weights(choices, call.who) = <<1, 2, 3>>

Inside(i) == \A d \in 1..Len(Answer.slices) :
                Answer.slices[d][1] <= i[d] /\ i[d] < Answer.slices[d][2]

\* C7: a LocalGaussian apply that returns changes the standardized representation of
\* its target only at indices within the window _make_slices built.
C7_NoiseOnlyInWindow ==
    (call.op = "LocalGaussian" /\ Returned)
    => /\ arrays[1].shape = call.before[1].shape
       /\ \A k \in 1..Size(arrays[1].shape) :
            ~Inside(Unravel(k - 1, arrays[1].shape))
            => StandardizedData(arrays[1])[k] = StandardizedData(call.before[1])[k]

C7_Witness ==
    /\ call.op = "LocalGaussian"
    /\ Returned
    /\ arrays[1].shape = <<2, 3>>
    /\ Answer.slices = << <<0, 2>>, <<1, 2>> >>
    /\ arrays[1].value[<<0, 1>>] # call.before[1].value[<<0, 1>>]
    /\ arrays[1].value[<<0, 0>>] = call.before[1].value[<<0, 0>>]
    /\ arrays[1].value[<<1, 2>>] = call.before[1].value[<<1, 2>>]

\* Crossover got as far as the draw of the size
DrewSize ==
    /\ call.op = "Crossover"
    /\ Len(call.before) = 2
    /\ call.before[1].shape = call.before[2].shape

\* C8: Crossover's clamped maximum is min(max_size, min of extent - 1 over the
\* targeted axes), max_size being the setting or floor(((size+1)/2)^(1/axes)); the
\* window size is 1 when that maximum is 1 and else in [1, maximum); with a maximum
\* of 1, one index along each targeted axis is taken from the second array.
C8_CrossoverWindowSize ==
    DrewSize
    => LET shape == call.before[1].shape
           axis == ResolveAxis(call.settings.axis, shape)
           bounds == { shape[a + 1] - 1 : a \in axis }
                       \cup (IF call.settings.max_size # <<>> THEN {call.settings.max_size[1]}
                             ELSE { k \in 0..(Size(shape) + 1) :
                                      /\ 2 * Power(k, Cardinality(axis)) <= Size(shape) + 1
                                      /\ Size(shape) + 1 < 2 * Power(k + 1, Cardinality(axis)) })
       IN  /\ Answer.max_size \in bounds
           /\ \A b \in bounds : Answer.max_size <= b
           /\ Returned
              => /\ Answer.max_size = 1 => Answer.size = 1
                 /\ Answer.max_size # 1 => 1 <= Answer.size /\ Answer.size < Answer.max_size
           /\ (Returned /\ Answer.max_size = 1)
              => \A a \in axis :
                    Cardinality({ i[a + 1] : i \in { j \in Idx(shape) :
                        arrays[1].value[j] = call.before[2].value[j] } }) = 1

C8_Witness ==
    /\ DrewSize
    /\ Returned
    /\ call.settings.max_size = <<3>>
    /\ Answer.max_size = 1
    /\ Answer.size = 1
    /\ call.before[1].shape = <<2, 4>>
    /\ Answer.axis = {0, 1}

\* C9: the child a TunedTranslation spawns has its axis and shape and, in a Choice of
\* its own, its weights at that time; from then on an apply of one operator never
\* changes the weights of another.
C9_SpawnedChoiceIsOwn ==
    /\ call.op = "spawn_child"
       => LET parent == operators[call.who]
              child == operators[Len(operators)]
          IN  /\ child.axis = parent.axis
              /\ child.shape = parent.shape
              /\ child.shift # parent.shift
              /\ choices[child.shift] = call.choices_before[parent.shift]
              /\ choices[parent.shift] = call.choices_before[parent.shift]
    /\ call.op = "TunedTranslation.apply"
       => \A o \in DOMAIN operators \ {call.who} :
             Weights(choices, o) = Weights(call.choices_before, o)

C9_Witness ==
    /\ call.op = "TunedTranslation.apply"
    /\ Returned
    /\ Len(operators) = 2
    /\ call.who = 2
    /\ Weights(call.choices_before, 1) = Weights(call.choices_before, 2)
    /\ Weights(choices, 2) # Weights(call.choices_before, 2)
    /\ Weights(choices, 1) = Weights(call.choices_before, 1)

\* C10: _make_slices given a size above extent - 1 on a targeted axis of extent > 1
\* fails and returns no window; no range it ever returns on a targeted axis is
\* empty or leaves [0, extent].
C10_OversizeFailsFast ==
    /\ (/\ BuiltWindow
        /\ \E a \in Answer.axis :
              WindowShape[a + 1] > 1 /\ Answer.size > WindowShape[a + 1] - 1)
       => ~Returned /\ Answer.slices = <<>>
    /\ (BuiltWindow /\ Returned)
       => \A a \in Answer.axis :
             /\ 0 <= Answer.slices[a + 1][1]
             /\ Answer.slices[a + 1][1] < Answer.slices[a + 1][2]
             /\ Answer.slices[a + 1][2] <= WindowShape[a + 1]

C10_Witness ==
    /\ call.op = "LocalGaussian"
    /\ Len(call.before) = 1
    /\ call.before[1].shape = <<3, 2>>
    /\ call.settings.size = <<2>>
    /\ Answer.axis = {0, 1}
    /\ Answer.error = EmptyRangeError
    /\ arrays = call.before

====
